---- MODULE Spec2Model ----
(***************************************************************************)
(* Model of the movie recommender in src/app.py: load_artifacts (merge,    *)
(* structured-field parsing, tags, CountVectorizer, cosine similarity),    *)
(* fetch_poster, recommend and the "Show recommendation" button handler of *)
(* main.                                                                   *)
(*                                                                         *)
(* Conventions.  Python positions are 0-based; the sequences here are      *)
(* 1-based, so Python row position p is row p + 1 of the model.  Orders    *)
(* between rows are unaffected.  A text is a sequence of words (the text   *)
(* split on blanks); a similarity value dot / sqrt(n1 * n2) is kept as the *)
(* exact pair <<dot, n1 * n2>> and compared by cross multiplication, so    *)
(* the ranking is the ranking of the exact cosines.                        *)
(***************************************************************************)
EXTENDS Integers, Sequences, FiniteSets, TLC

VARIABLES
    films,       \* the two CSV files on disk: one (movie row, credit row) per film
    apiKey,      \* TMDB_API_KEY is set in the environment
    phase,       \* "start" | "serving" | "crashed" (load_artifacts raised)
    buildError,  \* the exception load_artifacts raised, "" when none
    movies,      \* DataFrame returned by load_artifacts: rows [label, id, title, tags]
    similarity,  \* matrix returned by load_artifacts
    call         \* the last call of recommend / the button handler and its outcome

vars == <<films, apiKey, phase, buildError, movies, similarity, call>>

-----------------------------------------------------------------------------
(* Bounds *)
MaxFilms == 3          \* films in the CSV files
MaxK == 3              \* top_k ranges over -MaxK .. MaxK

(* Program constants *)
max_features == 5000   \* CountVectorizer(max_features=5000)
DefaultTopK == 5       \* recommend(..., top_k: int = 5)
CastLimit == 3         \* ast.literal_eval(obj)[:3]
PLACEHOLDER == "PLACEHOLDER"
TMDB_IMG_BASE == "IMG"

-----------------------------------------------------------------------------
(* Input domains *)
Titles == {"A", "B"}
UnknownTitle == "Unknown Title"
QueryTitles == Titles \cup {UnknownTitle}
KValues == (0 - MaxK) .. MaxK
NetOutcomes == {"exception", "non200", "badjson", "noposter", "poster"}

List(items) == [kind |-> "list", items |-> items]
Malformed == [kind |-> "malformed", items |-> <<>>]
NaN == [kind |-> "nan", items |-> <<>>]
Text(words) == [kind |-> "text", items |-> words]
Entry(name, job) == [name |-> name, job |-> job]

\* The contents a film of the CSV files may have.
Contents ==
    { [overview |-> Text(<<"Space", "war">>),
       genres |-> List(<<Entry(<<"Action">>, "")>>),
       keywords |-> List(<<>>),
       cast |-> List(<<Entry(<<"tom">>, ""), Entry(<<"ann">>, ""),
                       Entry(<<"bob">>, ""), Entry(<<"eve">>, "")>>),
       crew |-> List(<<Entry(<<"ed">>, "Editor"), Entry(<<"kim">>, "Director"),
                       Entry(<<"lee">>, "Director")>>)],
      [overview |-> Text(<<"the", "space">>),
       genres |-> List(<<>>), keywords |-> List(<<Entry(<<"action">>, "")>>),
       cast |-> List(<<>>), crew |-> List(<<>>)],
      [overview |-> NaN,
       genres |-> List(<<>>), keywords |-> List(<<>>),
       cast |-> List(<<Entry(<<"x">>, "")>>),
       crew |-> List(<<Entry(<<"The", "ed">>, "Editor")>>)],
      [overview |-> Text(<<"romance">>),
       genres |-> Malformed, keywords |-> List(<<>>),
       cast |-> NaN, crew |-> List(<<>>)] }

Film == [title : Titles, content : Contents]

RECURSIVE SeqsUpTo(_, _)
SeqsUpTo(S, n) ==
    IF n = 0 THEN {<<>>}
    ELSE LET shorter == SeqsUpTo(S, n - 1)
         IN  shorter \cup {Append(s, x) : s \in {t \in shorter : Len(t) = n - 1}, x \in S}

CsvFiles == {s \in SeqsUpTo(Film, MaxFilms) : Len(s) >= 1}

-----------------------------------------------------------------------------
(* pd.read_csv: the movie rows and the credit rows, in file order *)
MovieRows ==
    [p \in 1..Len(films) |->
        [id |-> p - 1, title |-> films[p].title,
         overview |-> films[p].content.overview,
         genres |-> films[p].content.genres,
         keywords |-> films[p].content.keywords]]

CreditRows ==
    [p \in 1..Len(films) |->
        [movie_id |-> p - 1, title |-> films[p].title,
         cast |-> films[p].content.cast,
         crew |-> films[p].content.crew]]

RECURSIVE Flatten(_)
Flatten(ss) == IF ss = <<>> THEN <<>> ELSE Head(ss) \o Flatten(Tail(ss))

\* movies.merge(credits, on="title"): inner join, left order, then right order
JoinRow(m, c) ==
    [id |-> m.id, title |-> m.title, overview |-> m.overview,
     genres |-> m.genres, keywords |-> m.keywords,
     movie_id |-> c.movie_id, cast |-> c.cast, crew |-> c.crew]

Merge(left, right) ==
    Flatten([i \in 1..Len(left) |->
        LET hits == SelectSeq(right, LAMBDA c : c.title = left[i].title)
        IN  [j \in 1..Len(hits) |-> JoinRow(left[i], hits[j])]])

Joined == Merge(MovieRows, CreditRows)

-----------------------------------------------------------------------------
(* Structured-field parsing.  A result is [raised, value]: ast.literal_eval *)
(* raises on a missing (NaN) or malformed cell and nothing catches it.      *)
Raise(e) == [raised |-> e, value |-> <<>>]
Return(v) == [raised |-> "", value |-> v]

literal_eval(obj) ==
    CASE obj.kind = "list" -> Return(obj.items)
      [] obj.kind = "nan" -> Raise("ValueError")
      [] OTHER -> Raise("SyntaxError")

PyPrefix(s, n) == SubSeq(s, 1, IF Len(s) < n THEN Len(s) ELSE n)

parse(obj) ==
    LET r == literal_eval(obj)
    IN  IF r.raised # "" THEN r
        ELSE Return([i \in 1..Len(r.value) |-> r.value[i].name])

parse_cast(obj) ==
    LET r == literal_eval(obj)
    IN  IF r.raised # "" THEN r
        ELSE LET top == PyPrefix(r.value, CastLimit)
             IN  Return([i \in 1..Len(top) |-> top[i].name])

parse_director(obj) ==
    LET r == literal_eval(obj)
    IN  IF r.raised # "" THEN r
        ELSE LET dirs == SelectSeq(r.value, LAMBDA i : i.job = "Director")
             IN  IF dirs # <<>> THEN Return(<<dirs[1].name>>) ELSE Return(<<>>)

\* Series.apply(f): the first cell on which f raises aborts the whole column
\* (res holds what f gives on each cell of the column)
ApplyColumn(res) ==
    LET bad == {p \in 1..Len(res) : res[p].raised # ""}
    IN  IF bad # {}
        THEN Raise(res[CHOOSE p \in bad : \A q \in bad : p <= q].raised)
        ELSE Return([p \in 1..Len(res) |-> res[p].value])

\* str.lower() on the words the inputs use
Lower(w) ==
    CASE w = "Space" -> "space"
      [] w = "The" -> "the"
      [] w = "Action" -> "action"
      [] OTHER -> w

fillna(cell) == IF cell.kind = "nan" THEN <<>> ELSE cell.items

\* " ".join(x) of a list of names, each name a sequence of words
Join(names) == Flatten(names)

\* movies["tags"] of one row, lower-cased
TagOf(row, genres, keywords, cast, crew) ==
    LET text == fillna(row.overview) \o Join(genres) \o Join(keywords)
                \o Join(cast) \o Join(crew)
    IN  [i \in 1..Len(text) |-> Lower(text[i])]

-----------------------------------------------------------------------------
(* CountVectorizer(max_features=5000, stop_words="english") *)
StopWords == {"the"}
ShortWords == {"x"}      \* token_pattern keeps words of two characters or more

Tokens(tag) == SelectSeq(tag, LAMBDA w : w \notin StopWords /\ w \notin ShortWords)

CountIn(t, toks) == Cardinality({i \in 1..Len(toks) : toks[i] = t})

RECURSIVE SumOver(_, _)
SumOver(S, f) ==
    IF S = {} THEN 0
    ELSE LET x == CHOOSE y \in S : TRUE IN f[x] + SumOver(S \ {x}, f)

Terms(tags) == UNION {{Tokens(tags[p])[i] : i \in 1..Len(Tokens(tags[p]))} : p \in 1..Len(tags)}

TermFrequency(tags, t) ==
    SumOver(1..Len(tags), [p \in 1..Len(tags) |-> CountIn(t, Tokens(tags[p]))])

\* the vocabulary: the max_features most frequent terms of the corpus
Vocabulary(tags) ==
    LET terms == Terms(tags)
    IN  IF Cardinality(terms) <= max_features THEN terms
        ELSE CHOOSE S \in SUBSET terms :
                /\ Cardinality(S) = max_features
                /\ \A a \in S, b \in terms \ S :
                      TermFrequency(tags, a) >= TermFrequency(tags, b)

\* cv.fit_transform(tags).toarray(): one count vector per tag
fit_transform(tags) ==
    LET vocab == Vocabulary(tags)
    IN  IF vocab = {} THEN Raise("ValueError")
        ELSE Return([p \in 1..Len(tags) |->
                        [t \in vocab |-> CountIn(t, Tokens(tags[p]))]])

Dot(u, v) == SumOver(DOMAIN u, [t \in DOMAIN u |-> u[t] * v[t]])

\* one cell of cosine_similarity: dot / sqrt(n1 * n2), 0 for a zero vector
Cosine(u, v) ==
    IF Dot(u, u) = 0 \/ Dot(v, v) = 0 THEN <<0, 1>>
    ELSE <<Dot(u, v), Dot(u, u) * Dot(v, v)>>

cosine_similarity(vectors) ==
    [p \in 1..Len(vectors) |-> [q \in 1..Len(vectors) |-> Cosine(vectors[p], vectors[q])]]

\* exact comparison of two similarity values
SimLess(a, b) == a[1] * a[1] * b[2] < b[1] * b[1] * a[2]
SimEq(a, b) == a[1] * a[1] * b[2] = b[1] * b[1] * a[2]
SimPositive(a) == a[1] > 0

-----------------------------------------------------------------------------
(* load_artifacts *)
Columns == {"label", "id", "title", "tags"}   \* movies[["id", "title", "tags"]] and its index

\* lines 47-63: tags, the frame movies[["id", "title", "tags"]] with the index
\* labels the merge gave it (0, 1, ... in Python), vectors, similarity
Vectorize(index) ==
    LET v == fit_transform([p \in 1..Len(index) |-> index[p].tags])
    IN  IF v.raised # "" THEN v
        ELSE Return(<<index, cosine_similarity(v.value)>>)

BuildIndex(rows, g, k, c, d) ==
    CASE g.raised # "" -> g
      [] k.raised # "" -> k
      [] c.raised # "" -> c
      [] d.raised # "" -> d
      [] OTHER ->
         Vectorize([p \in 1..Len(rows) |->
                      [label |-> p, id |-> rows[p].id, title |-> rows[p].title,
                       tags |-> TagOf(rows[p], g.value[p], k.value[p],
                                      c.value[p], d.value[p])]])

ParseColumns(rows) ==
    BuildIndex(rows,
               ApplyColumn([p \in 1..Len(rows) |-> parse(rows[p].genres)]),
               ApplyColumn([p \in 1..Len(rows) |-> parse(rows[p].keywords)]),
               ApplyColumn([p \in 1..Len(rows) |-> parse_cast(rows[p].cast)]),
               ApplyColumn([p \in 1..Len(rows) |-> parse_director(rows[p].crew)]))

load_artifacts == ParseColumns(Joined)

LoadArtifacts ==
    /\ phase = "start"
    /\ \E r \in {load_artifacts} :
          IF r.raised # ""
          THEN /\ phase' = "crashed"
               /\ buildError' = r.raised
               /\ UNCHANGED <<movies, similarity>>
          ELSE /\ phase' = "serving"
               /\ buildError' = ""
               /\ movies' = r.value[1]
               /\ similarity' = r.value[2]
    /\ UNCHANGED <<films, apiKey, call>>

-----------------------------------------------------------------------------
(* fetch_poster.  net is what the TMDB request of this call meets. *)

\* lines 73-78, the body of the try: an exception, a poster URL, or "" when
\* the body falls through without returning
RequestPoster(net) ==
    CASE net = "exception" -> Raise("RequestException")   \* connection error, timeout
      [] net = "non200" -> Return("")                     \* r.status_code != 200
      [] net = "badjson" -> Raise("JSONDecodeError")      \* r.json() raises
      [] net = "noposter" -> Return("")                   \* poster_path absent or empty
      [] OTHER -> Return(TMDB_IMG_BASE)                   \* TMDB_IMG_BASE + poster

fetch_poster_Propagates(movie_id, net) ==
    IF movie_id = 0 \/ ~apiKey THEN Return(PLACEHOLDER)
    ELSE LET r == RequestPoster(net)
         IN  IF r.raised # "" THEN r
             ELSE IF r.value # "" THEN r ELSE Return(PLACEHOLDER)

fetch_poster(movie_id, net) ==
    IF movie_id = 0 \/ ~apiKey THEN Return(PLACEHOLDER)
    ELSE LET r == RequestPoster(net)
         IN  IF r.raised # "" THEN Return(PLACEHOLDER)    \* except: pass
             ELSE IF r.value # "" THEN r ELSE Return(PLACEHOLDER)

-----------------------------------------------------------------------------
(* recommend *)

\* movies[movies["title"] == movie].index: the labels of the matching rows, in row order
MatchingLabels(movie) ==
    LET hits == SelectSeq(movies, LAMBDA r : r.title = movie)
    IN  [i \in 1..Len(hits) |-> hits[i].label]

FirstLabel_DefaultsToFirstRow(movie) ==
    LET labels == MatchingLabels(movie)
    IN  IF labels = <<>> THEN Return(1) ELSE Return(labels[1])

FirstLabel_TakesLast(movie) ==
    LET labels == MatchingLabels(movie)
    IN  IF labels = <<>> THEN Raise("IndexError") ELSE Return(labels[Len(labels)])

\* .index[0], IndexError when nothing matches
FirstLabel(movie) ==
    LET labels == MatchingLabels(movie)
    IN  IF labels = <<>> THEN Raise("IndexError") ELSE Return(labels[1])

\* list(enumerate(similarity[idx])): pairs <<position, value>>
Enumerate(row) == [p \in 1..Len(row) |-> <<p, row[p]>>]

\* sorted(..., reverse=True, key=lambda x: x[1]): descending by value, and
\* stable, so equal values keep their original order
RECURSIVE InsertDesc(_, _)
InsertDesc(sorted, x) ==
    IF sorted = <<>> THEN <<x>>
    ELSE IF SimLess(Head(sorted)[2], x[2]) THEN <<x>> \o sorted
    ELSE <<Head(sorted)>> \o InsertDesc(Tail(sorted), x)

RECURSIVE InsertAsc(_, _)
InsertAsc(sorted, x) ==
    IF sorted = <<>> THEN <<x>>
    ELSE IF SimLess(x[2], Head(sorted)[2]) THEN <<x>> \o sorted
    ELSE <<Head(sorted)>> \o InsertAsc(Tail(sorted), x)

RECURSIVE SortedForward(_)
SortedForward(pairs) ==
    IF pairs = <<>> THEN <<>>
    ELSE InsertAsc(SortedForward(SubSeq(pairs, 1, Len(pairs) - 1)), pairs[Len(pairs)])

RECURSIVE SortedReverse(_)
SortedReverse(pairs) ==
    IF pairs = <<>> THEN <<>>
    ELSE InsertDesc(SortedReverse(SubSeq(pairs, 1, Len(pairs) - 1)), pairs[Len(pairs)])

\* Python's s[start:stop] with 0-based, possibly negative, bounds
PyBound(x, n) == IF x < 0 THEN (IF x + n < 0 THEN 0 ELSE x + n) ELSE (IF x > n THEN n ELSE x)
PySlice(s, start, stop) ==
    LET lo == PyBound(start, Len(s))
        hi == PyBound(stop, Len(s))
    IN  IF lo < hi THEN SubSeq(s, lo + 1, hi) ELSE <<>>

\* DataFrame row[col]: KeyError for a column the frame does not have
GetItem(row, col) ==
    IF col \in DOMAIN row /\ col # "label" THEN Return(row[col]) ELSE Raise("KeyError")

NoResult(movie, top_k) ==
    [raised |-> "", found |-> FALSE, title |-> movie, k |-> top_k, idx |-> 0,
     rows |-> <<>>, names |-> <<>>, posters |-> <<>>, fetches |-> 0]

\* lines 97-105: the loop over the picked rows, and the return
Collect(movie, top_k, idx, rows, fetched) ==
    IF \E j \in 1..Len(rows) : fetched[j].raised # ""
    THEN LET j == CHOOSE a \in 1..Len(rows) :
                     /\ fetched[a].raised # ""
                     /\ \A b \in 1..(a - 1) : fetched[b].raised = ""
         IN  [raised |-> fetched[j].raised, found |-> TRUE, title |-> movie,
              k |-> top_k, idx |-> idx, rows |-> SubSeq(rows, 1, j),
              names |-> <<>>, posters |-> <<>>, fetches |-> j]
    ELSE [raised |-> "", found |-> TRUE, title |-> movie, k |-> top_k,
          idx |-> idx, rows |-> rows,
          names |-> [j \in 1..Len(rows) |-> movies[rows[j]].title],
          posters |-> [j \in 1..Len(rows) |-> fetched[j].value],
          fetches |-> Len(rows)]

\* lines 100-103: distances[1: top_k + 1], and movies.iloc[i[0]] of each
Loop(movie, top_k, net, idx, picked) ==
    Collect(movie, top_k, idx, [j \in 1..Len(picked) |-> picked[j][1]],
            [j \in 1..Len(picked) |-> fetch_poster(movies[picked[j][1]].id, net)])

Ranked_KeepsFirst(movie, top_k, net, first) ==
    IF first.raised # "" THEN NoResult(movie, top_k)
    ELSE Loop(movie, top_k, net, first.value,
              PySlice(SortedReverse(Enumerate(similarity[first.value])), 0, top_k + 1))

Ranked(movie, top_k, net, first) ==
    IF first.raised # "" THEN NoResult(movie, top_k)      \* except Exception
    ELSE Loop(movie, top_k, net, first.value,
              PySlice(SortedReverse(Enumerate(similarity[first.value])), 1, top_k + 1))

recommend(movie, top_k, net) == Ranked(movie, top_k, net, FirstLabel(movie))

NoCall == [op |-> "none", net |-> "", selId |-> -1, res |-> NoResult("", 0)]

\* a caller invokes recommend(movie, movies, similarity, top_k)
Recommend ==
    /\ phase = "serving"
    /\ call.op = "none"
    /\ \E movie \in QueryTitles, top_k \in KValues, net \in NetOutcomes :
          call' = [op |-> "recommend", net |-> net, selId |-> -1,
                   res |-> recommend(movie, top_k, net)]
    /\ UNCHANGED <<films, apiKey, phase, buildError, movies, similarity>>

-----------------------------------------------------------------------------
(* main: the "Show recommendation" button, lines 204-210 *)

\* the titles the selectbox offers: movies["title"].values
SelectboxOptions == {movies[p].title : p \in 1..Len(movies)}

\* get_local_details finds the row of movies_csv with this id
HasLocalDetails(movie_id) == \E p \in 1..Len(MovieRows) : MovieRows[p].id = movie_id

ButtonResult(net, r, sel_id) ==
    IF r.raised # ""
    THEN [op |-> "button", net |-> net, selId |-> -1, res |-> r]
    ELSE IF sel_id.raised # ""
    THEN [op |-> "button", net |-> net, selId |-> -1,
          res |-> [r EXCEPT !.raised = sel_id.raised]]
    ELSE [op |-> "button", net |-> net,
          selId |-> IF HasLocalDetails(sel_id.value) THEN sel_id.value ELSE -1,
          res |-> r]

\* line 208-209: sel_idx, then movies.iloc[sel_idx]["movie_id"]
SelectedId(sel_idx) ==
    IF sel_idx.raised # "" THEN sel_idx
    ELSE GetItem(movies[sel_idx.value], "movie_id")

ShowRecommendation ==
    /\ phase = "serving"
    /\ call.op = "none"
    /\ \E selected_movie \in SelectboxOptions, net \in NetOutcomes :
          call' = ButtonResult(net, recommend(selected_movie, DefaultTopK, net),
                               SelectedId(FirstLabel(selected_movie)))
    /\ UNCHANGED <<films, apiKey, phase, buildError, movies, similarity>>

\* the script runs again from the top: load_artifacts is cached, and what the
\* last run rendered is gone
Rerun ==
    /\ phase = "serving"
    /\ call.op # "none"
    /\ call' = NoCall
    /\ UNCHANGED <<films, apiKey, phase, buildError, movies, similarity>>

-----------------------------------------------------------------------------
Init ==
    /\ films \in CsvFiles
    /\ apiKey \in BOOLEAN
    /\ phase = "start"
    /\ buildError = ""
    /\ movies = <<>>
    /\ similarity = <<>>
    /\ call = NoCall

Next ==
    \/ LoadArtifacts
    \/ Recommend
    \/ ShowRecommendation
    \/ Rerun

Spec == Init /\ [][Next]_vars

-----------------------------------------------------------------------------
(* Properties *)
Res == call.res
N == Len(movies)
IsRecommend == call.op = "recommend"
Hit == IsRecommend /\ Res.found /\ Res.raised = ""
InIndex(t) == \E p \in 1..N : movies[p].title = t
FirstRowTitled(t) == CHOOSE p \in 1..N :
    movies[p].title = t /\ \A q \in 1..(p - 1) : movies[q].title # t
Min(a, b) == IF a < b THEN a ELSE b
Returned == {Res.rows[j] : j \in 1..Len(Res.rows)}
SimTo(p) == similarity[Res.idx][p]
\* p ranks before q for the matched row: higher similarity, then lower row
Before(p, q) == SimLess(SimTo(q), SimTo(p)) \/ (SimEq(SimTo(p), SimTo(q)) /\ p < q)
EmptyTag(p) == Tokens(movies[p].tags) = <<>>

\* C1: for a title of the index and k >= 1, the result of recommend never
\* contains the matched row itself.
C1_NeverReturnsSelf ==
    (Hit /\ Res.k >= 1) => Res.idx \notin Returned

\* C2: for every k <= 0 and every title of the index, recommend returns an
\* empty sequence.
C2_NonPositiveKEmpty ==
    (IsRecommend /\ Res.found /\ Res.k <= 0) =>
        (Res.names = <<>> /\ Res.posters = <<>>)

\* what a structured cell contributes when a bad cell degrades to the empty list
Degraded(r) == IF r.raised # "" THEN <<>> ELSE r.value
DegradedIndex ==
    [p \in 1..Len(Joined) |->
        [label |-> p, id |-> Joined[p].id, title |-> Joined[p].title,
         tags |-> TagOf(Joined[p], Degraded(parse(Joined[p].genres)),
                        Degraded(parse(Joined[p].keywords)),
                        Degraded(parse_cast(Joined[p].cast)),
                        Degraded(parse_director(Joined[p].crew)))]]
HasBadField ==
    \E p \in 1..Len(Joined) : \E col \in {"genres", "keywords", "cast", "crew"} :
        Joined[p][col].kind # "list"

\* C3: when a structured sub-field of a joined row is missing or malformed,
\* load_artifacts still completes: the field contributes an empty list to
\* the row's tag, the row stays in the index and the other rows are
\* processed normally (the corpus having some term at all).
C3_BadFieldDegrades ==
    (phase # "start" /\ HasBadField
       /\ Vocabulary([p \in 1..Len(Joined) |-> DegradedIndex[p].tags]) # {}) =>
        (phase = "serving" /\ movies = DegradedIndex)

\* C4: for a title of the index and k >= 1, the returned rows are the first
\* k rows, in order, of the total order (similarity to the matched row
\* descending, row index ascending) over all rows but the matched one.
C4_TopKOfTotalOrder ==
    (Hit /\ Res.k >= 1) =>
        /\ Res.idx \notin Returned
        /\ Len(Res.rows) = Min(Res.k, N - 1)
        /\ \A i, j \in 1..Len(Res.rows) : i < j => Before(Res.rows[i], Res.rows[j])
        /\ \A p \in (1..N) \ (Returned \cup {Res.idx}) :
              \A j \in 1..Len(Res.rows) : Before(Res.rows[j], p)

\* C5: for an index of n rows, a title of it and k >= 1, recommend returns
\* exactly min(k, n - 1) entries and does not raise.
C5_ExactCount ==
    (IsRecommend /\ Res.found /\ Res.k >= 1) =>
        /\ Res.raised = ""
        /\ Len(Res.names) = Min(Res.k, N - 1)
        /\ Len(Res.posters) = Min(Res.k, N - 1)

C5_Witness ==
    /\ IsRecommend /\ Res.found /\ N >= 2
    /\ Res.k > N - 1 /\ Len(Res.names) = N - 1

\* C6 as stated: a movie with an empty tag is never the first entry of a
\* result of recommend, for any title of the index and any k >= 1.
C6_EmptyTagNeverFirst ==
    (Hit /\ Res.k >= 1 /\ Res.rows # <<>>) => ~EmptyTag(Res.rows[1])

\* C6 amended: a movie with an empty tag is the first entry of a result only
\* when at most one row of the index has positive similarity to the matched
\* row; it never comes first while two rows have positive similarity.
C6_EmptyTagFirstOnlyWithoutRivals ==
    (Hit /\ Res.k >= 1 /\ Res.rows # <<>> /\ EmptyTag(Res.rows[1])) =>
        Cardinality({p \in 1..N : SimPositive(SimTo(p))}) <= 1

C6_Witness ==
    /\ Hit /\ Res.k >= 2 /\ Len(Res.rows) >= 2
    /\ Cardinality({p \in 1..N : SimPositive(SimTo(p))}) >= 2
    /\ ~EmptyTag(Res.rows[1])
    /\ \E j \in 2..Len(Res.rows) : EmptyTag(Res.rows[j])

\* C7: the button handler, for a title of the index, obtains the matched
\* movie's own identifier without raising.
C7_ButtonGetsQueryId ==
    (call.op = "button") =>
        /\ Res.raised = ""
        /\ call.selId = movies[FirstRowTitled(Res.title)].id

\* C8: for a title that equals no title of the index, and every k, recommend
\* returns empty names and posters, raises nothing and fetches no poster.
C8_UnknownTitleEmpty ==
    (IsRecommend /\ ~InIndex(Res.title)) =>
        /\ Res.raised = "" /\ ~Res.found
        /\ Res.names = <<>> /\ Res.posters = <<>>
        /\ Res.fetches = 0

C8_Witness ==
    /\ IsRecommend /\ ~InIndex(Res.title) /\ Res.k >= 1 /\ N >= 2
    /\ Res.names = <<>>

\* C9: with several rows carrying the query title, recommend ranks against
\* the similarity row of the first of them, and that position is the one
\* used to read titles and ids from the index.
C9_FirstMatchAligned ==
    (IsRecommend /\ Res.found) =>
        /\ Res.idx = FirstRowTitled(Res.title)
        /\ movies[Res.idx].title = Res.title
        /\ \A i, j \in 1..Len(Res.rows) : i < j =>
              ~SimLess(similarity[FirstRowTitled(Res.title)][Res.rows[i]],
                       similarity[FirstRowTitled(Res.title)][Res.rows[j]])
        /\ Res.raised = "" =>
              \A j \in 1..Len(Res.rows) : Res.names[j] = movies[Res.rows[j]].title

C9_Witness ==
    /\ Hit /\ Res.k >= 1 /\ Res.rows # <<>>
    /\ \E p, q \in 1..N :
          /\ p < q /\ movies[p].title = Res.title /\ movies[q].title = Res.title
          /\ similarity[p] # similarity[q]
          /\ Res.idx = p

\* C10: fetch_poster returns an image URL or the placeholder and never
\* raises: the placeholder when the id is missing, the key is absent, the
\* request fails, the status is not 200, the body cannot be decoded or the
\* poster is absent; so recommend neither fails nor drops a movie.
C10_PosterNeverRaises ==
    (IsRecommend /\ Res.found) =>
        /\ Res.raised = ""
        /\ Len(Res.posters) = Len(Res.rows) /\ Len(Res.names) = Len(Res.rows)
        /\ Res.fetches = Len(Res.rows)
        /\ \A j \in 1..Len(Res.rows) :
              /\ Res.posters[j] \in {PLACEHOLDER, TMDB_IMG_BASE}
              /\ (movies[Res.rows[j]].id = 0 \/ ~apiKey \/ call.net # "poster")
                    => Res.posters[j] = PLACEHOLDER
              /\ (movies[Res.rows[j]].id # 0 /\ apiKey /\ call.net = "poster")
                    => Res.posters[j] = TMDB_IMG_BASE

C10_Witness ==
    /\ IsRecommend /\ Res.found /\ apiKey
    /\ call.net \in {"exception", "badjson"}
    /\ \E j \in 1..Len(Res.rows) :
          movies[Res.rows[j]].id # 0 /\ Res.posters[j] = PLACEHOLDER
====
